---------------------------- MODULE Spec2Model ----------------------------
(***************************************************************************)
(* Toy robot simulator: the LocationManager / RobotManager state machine   *)
(* and the command loop of main.py.                                        *)
(*                                                                         *)
(* Python values are modelled as optional values: None is the empty tuple  *)
(* and a value v is the one-element tuple <<v>>, so that an integer, a     *)
(* string and None can be compared the way Python's == compares them.      *)
(* A call's outcome is a record: raised tells whether an exception left    *)
(* the call, value is the returned value (or the exception's name).        *)
(***************************************************************************)
EXTENDS Integers, Sequences, FiniteSets, TLC

VARIABLES
    location_manager,  \* the LocationManager object: simulation_area, location_x, location_y, location_facing
    running,           \* main.py: the command loop's flag
    aborted,           \* main.py: the exit(1) path of the command loop was taken
    last_call,         \* the operation or command that acted last and its arguments (op "none" initially)
    returned,          \* the outcome of the manager call made last
    printed,           \* the text the command loop printed last for a command
    ever_placed,       \* history: some set_start_position call returned True
    places_inside,     \* history: every successful place so far targeted a point inside the area
    expected,          \* history: the state the transition table of the specification gives
    streak             \* history: the current run of turn or report calls, and the object before it

vars == <<location_manager, running, aborted, last_call, returned, printed,
          ever_placed, places_inside, expected, streak>>

-----------------------------------------------------------------------------
(* Bounds of the model *)

MaxWidth == 2
MaxHeight == 2
MaxCoord == 3
MaxDistance == 2

-----------------------------------------------------------------------------
(* Python values *)

None == <<>>
Some(v) == <<v>>

Return(v) == [raised |-> FALSE, value |-> v]
Raise(e) == [raised |-> TRUE, value |-> e]

NORTH == Some("NORTH")
EAST == Some("EAST")
SOUTH == Some("SOUTH")
WEST == Some("WEST")

\* LocationManager.available_directions
available_directions == <<NORTH, EAST, SOUTH, WEST>>

\* len(list)
len(list) == Len(list)

\* list[i] with Python's 0-based index
item(list, i) == list[i + 1]

\* list_index as str.find would answer: -1 when absent, never an error
list_index_find(list, v) ==
    IF \E i \in 1..Len(list) : list[i] = v
    THEN Return((CHOOSE i \in 1..Len(list) :
                    list[i] = v /\ \A j \in 1..(i - 1) : list[j] /= v) - 1)
    ELSE Return(-1)

\* list.index(v): the 0-based index of the first occurrence, ValueError when absent
list_index(list, v) ==
    IF \E i \in 1..Len(list) : list[i] = v
    THEN Return((CHOOSE i \in 1..Len(list) :
                    list[i] = v /\ \A j \in 1..(i - 1) : list[j] /= v) - 1)
    ELSE Raise("ValueError")

\* str(n) of a digit
digit(d) ==
    CASE d = 0 -> "0" [] d = 1 -> "1" [] d = 2 -> "2" [] d = 3 -> "3" [] d = 4 -> "4"
      [] d = 5 -> "5" [] d = 6 -> "6" [] d = 7 -> "7" [] d = 8 -> "8" [] d = 9 -> "9"

RECURSIVE nat_str(_)
nat_str(n) == IF n < 10 THEN digit(n) ELSE nat_str(n \div 10) \o digit(n % 10)

\* str(n) of an integer
int_str(n) == IF n < 0 THEN "-" \o nat_str(-n) ELSE nat_str(n)

\* f'{v}' of an optional integer and of an optional string
fmt_int(v) == IF v = None THEN "None" ELSE int_str(v[1])
fmt_str(v) == IF v = None THEN "None" ELSE v[1]

\* f'{location}' of a tuple (x, y, direction): Python's repr of the tuple
fmt_location(location) ==
    "(" \o fmt_int(location[1]) \o ", " \o fmt_int(location[2]) \o ", '"
        \o fmt_str(location[3]) \o "')"

-----------------------------------------------------------------------------
(* LocationManager *)

\* LocationManager.__init__
LocationManager(simulation_area) ==
    [simulation_area |-> simulation_area,
     location_x |-> None,
     location_y |-> None,
     location_facing |-> None]

\* check_location with the upper bound of y forgotten
check_location_no_height(simulation_area, location) ==
    IF location[1] < 0 \/ location[1] > simulation_area[1] \/ location[2] < 0
    THEN FALSE
    ELSE TRUE

\* check_location testing only the upper bounds
check_location_upper_only(simulation_area, location) ==
    IF location[1] > simulation_area[1] \/ location[2] > simulation_area[2]
    THEN FALSE
    ELSE TRUE

\* LocationManager.check_location; location is a pair of integers
check_location(simulation_area, location) ==
    IF location[1] < 0 \/ location[1] > simulation_area[1]
       \/ location[2] < 0 \/ location[2] > simulation_area[2]
    THEN FALSE
    ELSE TRUE

\* the match statement with a default: any other rotation turns right
rotation_factor_defaulting(rotation) ==
    CASE rotation = "LEFT" -> Return(-1)
      [] OTHER -> Return(1)

\* the match statement of handle_rotation
rotation_factor(rotation) ==
    CASE rotation = "RIGHT" -> Return(1)
      [] rotation = "LEFT" -> Return(-1)
      [] OTHER -> Raise("Exception")

\* handle_rotation without the modulo: stepping right from the last direction
\* leaves the list (IndexError), stepping left from the first one still wraps
\* through Python's negative index
handle_rotation_no_modulo(directions, rotation, current_direction) ==
    LET factor == rotation_factor(rotation)
        index == list_index(directions, current_direction)
    IN IF factor.raised THEN factor
       ELSE IF index.raised THEN index
       ELSE IF index.value + factor.value >= len(directions) THEN Raise("IndexError")
       ELSE IF index.value + factor.value < 0
       THEN Return(item(directions, len(directions) + index.value + factor.value))
       ELSE Return(item(directions, index.value + factor.value))

\* handle_rotation with the modulus one short
handle_rotation_short_modulus(directions, rotation, current_direction) ==
    LET factor == rotation_factor(rotation)
        index == list_index(directions, current_direction)
    IN IF factor.raised THEN factor
       ELSE IF index.raised THEN index
       ELSE Return(item(directions, (index.value + factor.value) % (len(directions) - 1)))

\* LocationManager.handle_rotation
handle_rotation(directions, rotation, current_direction) ==
    LET factor == rotation_factor(rotation)
        index == list_index(directions, current_direction)
    IN IF factor.raised THEN factor
       ELSE IF index.raised THEN index
       ELSE Return(item(directions, (index.value + factor.value) % len(directions)))

\* handle_move with SOUTH stepping the way NORTH does
handle_move_south_up(current_location, direction, distance) ==
    LET new_x == current_location[1]
        new_y == current_location[2]
    IN CASE direction = NORTH -> Return(<<new_x, Some(new_y[1] + distance)>>)
         [] direction = EAST -> Return(<<Some(new_x[1] + distance), new_y>>)
         [] direction = SOUTH -> Return(<<new_x, Some(new_y[1] + distance)>>)
         [] direction = WEST -> Return(<<Some(new_x[1] - distance), new_y>>)
         [] OTHER -> Return(current_location)

\* handle_move with the axes exchanged: NORTH / SOUTH step along x, EAST / WEST along y
handle_move_axes_swapped(current_location, direction, distance) ==
    LET new_x == current_location[1]
        new_y == current_location[2]
    IN CASE direction = NORTH ->
              IF new_x = None THEN Raise("TypeError")
              ELSE Return(<<Some(new_x[1] + distance), new_y>>)
         [] direction = EAST ->
              IF new_y = None THEN Raise("TypeError")
              ELSE Return(<<new_x, Some(new_y[1] + distance)>>)
         [] direction = SOUTH ->
              IF new_x = None THEN Raise("TypeError")
              ELSE Return(<<Some(new_x[1] - distance), new_y>>)
         [] direction = WEST ->
              IF new_y = None THEN Raise("TypeError")
              ELSE Return(<<new_x, Some(new_y[1] - distance)>>)
         [] OTHER -> Return(current_location)

\* handle_move whose default case steps NORTH instead of returning current_location
handle_move_default_north(current_location, direction, distance) ==
    LET new_x == current_location[1]
        new_y == current_location[2]
    IN CASE direction = EAST ->
              IF new_x = None THEN Raise("TypeError")
              ELSE Return(<<Some(new_x[1] + distance), new_y>>)
         [] direction = SOUTH ->
              IF new_y = None THEN Raise("TypeError")
              ELSE Return(<<new_x, Some(new_y[1] - distance)>>)
         [] direction = WEST ->
              IF new_x = None THEN Raise("TypeError")
              ELSE Return(<<Some(new_x[1] - distance), new_y>>)
         [] OTHER ->
              IF new_y = None THEN Raise("TypeError")
              ELSE Return(<<new_x, Some(new_y[1] + distance)>>)

\* LocationManager.handle_move; current_location is a pair of optional integers
handle_move(current_location, direction, distance) ==
    LET new_x == current_location[1]
        new_y == current_location[2]
    IN CASE direction = NORTH ->
              IF new_y = None THEN Raise("TypeError")
              ELSE Return(<<new_x, Some(new_y[1] + distance)>>)
         [] direction = EAST ->
              IF new_x = None THEN Raise("TypeError")
              ELSE Return(<<Some(new_x[1] + distance), new_y>>)
         [] direction = SOUTH ->
              IF new_y = None THEN Raise("TypeError")
              ELSE Return(<<new_x, Some(new_y[1] - distance)>>)
         [] direction = WEST ->
              IF new_x = None THEN Raise("TypeError")
              ELSE Return(<<Some(new_x[1] - distance), new_y>>)
         [] OTHER -> Return(current_location)

\* set_start_position refusing a location outside the simulation area
set_start_position_checked(self, location) ==
    IF location /= None /\ check_location(self.simulation_area, <<location[1][1], location[2][1]>>)
    THEN [self |-> [self EXCEPT !.location_x = location[1],
                                !.location_y = location[2],
                                !.location_facing = location[3]],
          out |-> Return(TRUE)]
    ELSE [self |-> self, out |-> Return(FALSE)]

\* set_start_position storing the pair as the simulation area as well
set_start_position_as_area(self, location) ==
    IF location /= None
    THEN [self |-> [self EXCEPT !.simulation_area = <<location[1][1], location[2][1]>>,
                                !.location_x = location[1],
                                !.location_y = location[2],
                                !.location_facing = location[3]],
          out |-> Return(TRUE)]
    ELSE [self |-> self, out |-> Return(FALSE)]

\* set_start_position assigning the position but not the orientation
set_start_position_position_only(self, location) ==
    IF location /= None
    THEN [self |-> [self EXCEPT !.location_x = location[1],
                                !.location_y = location[2]],
          out |-> Return(TRUE)]
    ELSE [self |-> self, out |-> Return(FALSE)]

\* LocationManager.set_start_position: the new object state and the outcome
set_start_position(self, location) ==
    IF location /= None
    THEN [self |-> [self EXCEPT !.location_x = location[1],
                                !.location_y = location[2],
                                !.location_facing = location[3]],
          out |-> Return(TRUE)]
    ELSE [self |-> self, out |-> Return(FALSE)]

\* update_rotation falling back to the default start position when the turn fails
update_rotation_default_on_error(self, rotation) ==
    LET new_direction == handle_rotation(available_directions, rotation, self.location_facing)
    IN IF new_direction.raised
       THEN [self |-> [self EXCEPT !.location_x = Some(0),
                                   !.location_y = Some(0),
                                   !.location_facing = NORTH],
             out |-> Return(FALSE)]
       ELSE [self |-> [self EXCEPT !.location_facing = new_direction.value],
             out |-> Return(TRUE)]

\* LocationManager.update_rotation
update_rotation(self, rotation) ==
    LET new_direction == handle_rotation(available_directions, rotation, self.location_facing)
    IN IF new_direction.raised
       THEN [self |-> self, out |-> Return(FALSE)]
       ELSE [self |-> [self EXCEPT !.location_facing = new_direction.value],
             out |-> Return(TRUE)]

\* move_robot signalling a candidate outside the area with an exception
lm_move_robot_raises_outside(self, direction, distance) ==
    LET new == handle_move(<<self.location_x, self.location_y>>, direction, distance)
    IN IF new.raised THEN [self |-> self, out |-> new]
       ELSE IF new.value = <<self.location_x, self.location_y>>
       THEN [self |-> self, out |-> Return(FALSE)]
       ELSE IF new.value[1] = None \/ new.value[2] = None
       THEN [self |-> self, out |-> Raise("TypeError")]
       ELSE IF check_location(self.simulation_area, <<new.value[1][1], new.value[2][1]>>)
       THEN [self |-> [self EXCEPT !.location_x = new.value[1],
                                   !.location_y = new.value[2]],
             out |-> Return(TRUE)]
       ELSE [self |-> self, out |-> Raise("OutOfBounds")]

\* move_robot validating the current position as well as the candidate
lm_move_robot_checks_current(self, direction, distance) ==
    LET new == handle_move(<<self.location_x, self.location_y>>, direction, distance)
    IN IF new.raised THEN [self |-> self, out |-> new]
       ELSE IF new.value = <<self.location_x, self.location_y>>
       THEN [self |-> self, out |-> Return(FALSE)]
       ELSE IF new.value[1] = None \/ new.value[2] = None
       THEN [self |-> self, out |-> Raise("TypeError")]
       ELSE IF /\ check_location(self.simulation_area, <<self.location_x[1], self.location_y[1]>>)
               /\ check_location(self.simulation_area, <<new.value[1][1], new.value[2][1]>>)
       THEN [self |-> [self EXCEPT !.location_x = new.value[1],
                                   !.location_y = new.value[2]],
             out |-> Return(TRUE)]
       ELSE [self |-> self, out |-> Return(FALSE)]

\* LocationManager.move_robot
lm_move_robot(self, direction, distance) ==
    LET new == handle_move(<<self.location_x, self.location_y>>, direction, distance)
    IN IF new.raised THEN [self |-> self, out |-> new]
       ELSE IF new.value = <<self.location_x, self.location_y>>
       THEN [self |-> self, out |-> Return(FALSE)]
       ELSE IF new.value[1] = None \/ new.value[2] = None
       THEN [self |-> self, out |-> Raise("TypeError")]
       ELSE IF check_location(self.simulation_area, <<new.value[1][1], new.value[2][1]>>)
       THEN [self |-> [self EXCEPT !.location_x = new.value[1],
                                   !.location_y = new.value[2]],
             out |-> Return(TRUE)]
       ELSE [self |-> self, out |-> Return(FALSE)]

\* LocationManager.to_string
to_string(self) ==
    "(" \o fmt_int(self.location_x) \o "," \o fmt_int(self.location_y) \o ","
        \o fmt_str(self.location_facing) \o ")"

\* is_placed by truthiness, the expression its log line prints: 0 counts as absent
is_placed_truthy(self) ==
    /\ self.location_x /= None
    /\ self.location_x /= Some(0)
    /\ self.location_y /= None

\* LocationManager.is_placed
is_placed(self) == self.location_x /= None /\ self.location_y /= None

-----------------------------------------------------------------------------
(* RobotManager; self is the LocationManager object the RobotManager holds *)

\* RobotManager.move_robot
move_robot(self) ==
    IF ~is_placed(self)
    THEN [self |-> self,
          out |-> Return("Robot not placed. Please place robot before moving.")]
    ELSE LET moved == lm_move_robot(self, self.location_facing, 1)
         IN IF moved.out.raised THEN moved
            ELSE IF moved.out.value
            THEN [self |-> moved.self,
                  out |-> Return("Robot moved. Location: " \o fmt_int(moved.self.location_x)
                                 \o ", " \o fmt_int(moved.self.location_y)
                                 \o ", facing " \o fmt_str(moved.self.location_facing))]
            ELSE [self |-> moved.self,
                  out |-> Return("Robot movement failed. Stopped moving. See logs for more details.")]

\* RobotManager.turn_robot
turn_robot(self, rotation) ==
    LET turned == update_rotation(self, rotation)
    IN IF turned.out.value
       THEN [self |-> turned.self,
             out |-> Return("Robot is now facing " \o fmt_str(turned.self.location_facing))]
       ELSE [self |-> turned.self,
             out |-> Return("Failed to rotate to " \o rotation \o ". Robot is still facing "
                            \o fmt_str(turned.self.location_facing) \o ".")]

\* RobotManager.place_robot
place_robot(self, location) ==
    LET placed == set_start_position(self, location)
    IN IF placed.out.value
       THEN [self |-> placed.self,
             out |-> Return("Robot placed successfully at " \o fmt_location(location) \o ".")]
       ELSE [self |-> placed.self, out |-> Return("Robot placed at default location.")]

\* report_robot_location putting an unplaced robot at the default location first
report_robot_location_placing(self) ==
    IF is_placed(self)
    THEN [self |-> self, out |-> Return(to_string(self))]
    ELSE LET placed == set_start_position(self, <<Some(0), Some(0), NORTH>>).self
         IN [self |-> placed, out |-> Return(to_string(placed))]

\* RobotManager.report_robot_location
report_robot_location(self) == [self |-> self, out |-> Return(to_string(self))]

-----------------------------------------------------------------------------
(* The transition table of the specification (section 4.2), kept beside   *)
(* the program as a history variable and never read by the program.        *)

Canonical == {NORTH, EAST, SOUTH, WEST}

\* contains(point) of the Bounded Area
contains(area, x, y) == 0 <= x /\ x <= area[1] /\ 0 <= y /\ y <= area[2]

Unplaced == [kind |-> "unplaced", x |-> 0, y |-> 0, f |-> None]
Void == [kind |-> "void", x |-> 0, y |-> 0, f |-> None]
Placed(x, y, f) == [kind |-> "placed", x |-> x, y |-> y, f |-> f]

\* the cyclic neighbours of the order NORTH, EAST, SOUTH, WEST
table_right(f) == CASE f = NORTH -> EAST [] f = EAST -> SOUTH [] f = SOUTH -> WEST [] f = WEST -> NORTH
table_left(f) == CASE f = NORTH -> WEST [] f = WEST -> SOUTH [] f = SOUTH -> EAST [] f = EAST -> NORTH

\* place overwrites; an orientation outside the four leaves the table undefined
table_place(x, y, f) == IF f \in Canonical THEN Placed(x, y, f) ELSE Void

table_rotate(e, rotation) ==
    IF e.kind /= "placed" THEN e
    ELSE IF rotation = "RIGHT" THEN Placed(e.x, e.y, table_right(e.f))
    ELSE IF rotation = "LEFT" THEN Placed(e.x, e.y, table_left(e.f))
    ELSE e

table_candidate(e, n) ==
    CASE e.f = NORTH -> <<e.x, e.y + n>>
      [] e.f = EAST -> <<e.x + n, e.y>>
      [] e.f = SOUTH -> <<e.x, e.y - n>>
      [] e.f = WEST -> <<e.x - n, e.y>>

table_move(area, e, n) ==
    IF e.kind /= "placed" THEN e
    ELSE LET c == table_candidate(e, n)
         IN IF contains(area, c[1], c[2]) THEN Placed(c[1], c[2], e.f) ELSE e

table_report(e) == "(" \o int_str(e.x) \o "," \o int_str(e.y) \o "," \o e.f[1] \o ")"

-----------------------------------------------------------------------------
(* Inputs *)

\* the degenerate area sides and the largest ones
Areas == {0, MaxWidth} \X {0, MaxHeight}
Coords == -1..MaxCoord
Facings == Canonical \cup {Some("UP")}
Locations == {<<Some(x), Some(y), f>> : x \in Coords, y \in Coords, f \in Facings}
Rotations == {"LEFT", "RIGHT", "BACK"}
Distances == 0..MaxDistance

-----------------------------------------------------------------------------
(* The managers called directly, as the tests call them *)

Call(op, args) == [op |-> op, args |-> args]

\* the runs of calls the history follows: up to four RIGHT turns, a turn and
\* the opposite turn, two reports
Streaks ==
    { <<"RIGHT">>, <<"RIGHT", "RIGHT">>, <<"RIGHT", "RIGHT", "RIGHT">>,
      <<"RIGHT", "RIGHT", "RIGHT", "RIGHT">>,
      <<"LEFT">>, <<"LEFT", "RIGHT">>, <<"RIGHT", "LEFT">>,
      <<"REPORT">>, <<"REPORT", "REPORT">> }

NoStreak == [from |-> LocationManager(<<0, 0>>), first |-> Return(None), calls |-> <<>>]

\* the run after one more call with outcome out: continued while it stays one
\* of Streaks, begun anew otherwise, from the object as it is before this call
\* and with this call's outcome as the first one
StreakAfter(call, out) ==
    IF streak.calls /= <<>> /\ streak.calls \o <<call>> \in Streaks
    THEN [streak EXCEPT !.calls = @ \o <<call>>]
    ELSE [from |-> location_manager, first |-> out, calls |-> <<call>>]

\* a turn_robot call continues the run when update_rotation returned True
TurnHistory(rotation) ==
    streak' = IF update_rotation(location_manager, rotation).out.value
              THEN StreakAfter(rotation, turn_robot(location_manager, rotation).out)
              ELSE NoStreak

Init ==
    /\ location_manager \in {LocationManager(area) : area \in Areas}
    /\ running = TRUE
    /\ aborted = FALSE
    /\ last_call = Call("none", <<>>)
    /\ returned = Return(None)
    /\ printed = None
    /\ ever_placed = FALSE
    /\ places_inside = TRUE
    /\ expected = Unplaced
    /\ streak = NoStreak

\* what a call of set_start_position(location) adds to the history
PlaceHistory(location, out) ==
    IF ~out.raised /\ location /= None
    THEN /\ ever_placed' = TRUE
         /\ places_inside' = (places_inside /\ contains(location_manager.simulation_area,
                                                        location[1][1], location[2][1]))
         /\ expected' = table_place(location[1][1], location[2][1], location[3])
    ELSE UNCHANGED <<ever_placed, places_inside, expected>>

\* robot_manager.place_robot(location)
PlaceRobot(location) ==
    \E res \in {place_robot(location_manager, location)} :
       /\ location_manager' = res.self
       /\ last_call' = Call("place_robot", <<location>>)
       /\ returned' = res.out
       /\ PlaceHistory(location, res.out)
       /\ streak' = NoStreak
       /\ UNCHANGED <<running, aborted, printed>>

\* robot_manager.move_robot()
MoveRobot ==
    \E res \in {move_robot(location_manager)} :
       /\ location_manager' = res.self
       /\ last_call' = Call("move_robot", <<>>)
       /\ returned' = res.out
       /\ expected' = table_move(location_manager.simulation_area, expected, 1)
       /\ streak' = NoStreak
       /\ UNCHANGED <<running, aborted, printed, ever_placed, places_inside>>

\* robot_manager.turn_robot(rotation)
TurnRobot(rotation) ==
    \E res \in {turn_robot(location_manager, rotation)} :
       /\ location_manager' = res.self
       /\ last_call' = Call("turn_robot", <<rotation>>)
       /\ returned' = res.out
       /\ expected' = table_rotate(expected, rotation)
       /\ TurnHistory(rotation)
       /\ UNCHANGED <<running, aborted, printed, ever_placed, places_inside>>

\* robot_manager.report_robot_location()
ReportRobotLocation ==
    \E res \in {report_robot_location(location_manager)} :
       /\ location_manager' = res.self
       /\ last_call' = Call("report_robot_location", <<>>)
       /\ returned' = res.out
       /\ streak' = StreakAfter("REPORT", res.out)
       /\ UNCHANGED <<running, aborted, printed, ever_placed, places_inside, expected>>

\* location_manager.move_robot(location_manager.location_facing, distance)
LocationMove(distance) ==
    \E res \in {lm_move_robot(location_manager, location_manager.location_facing, distance)} :
       /\ location_manager' = res.self
       /\ last_call' = Call("location_manager.move_robot", <<distance>>)
       /\ returned' = res.out
       /\ expected' = table_move(location_manager.simulation_area, expected, distance)
       /\ streak' = NoStreak
       /\ UNCHANGED <<running, aborted, printed, ever_placed, places_inside>>

Next ==
    \/ \E location \in Locations \cup {None} : PlaceRobot(location)
    \/ MoveRobot
    \/ \E rotation \in Rotations : TurnRobot(rotation)
    \/ ReportRobotLocation
    \/ \E distance \in Distances : LocationMove(distance)

Spec == Init /\ [][Next]_vars

-----------------------------------------------------------------------------
(* SimulationAreaManager *)

\* SimulationAreaManager.set_simulation_area
set_simulation_area(self, x, y) == [self EXCEPT !.simulation_area = <<x, y>>]

\* SimulationAreaManager.__init__
SimulationAreaManager(simulation_area) ==
    IF simulation_area = None
    THEN Raise("Exception")
    ELSE Return(set_simulation_area([simulation_area |-> None],
                                    simulation_area[1], simulation_area[2]))

\* SimulationAreaManager.get_simulation_area
get_simulation_area(self) ==
    IF self.simulation_area /= None
    THEN Return(self.simulation_area)
    ELSE Raise("Exception")

-----------------------------------------------------------------------------
(* main.py: the command loop.                                              *)
(*                                                                         *)
(* A command is the line read, after strip() and upper(): the sequence of  *)
(* its whitespace-separated words (what split() gives), each word the      *)
(* sequence of its comma-separated fields (what split(',') gives).         *)

available_commands ==
    "Available commands: PLACE X,Y,F | MOVE | LEFT | RIGHT | REPORT | STOP | HELP"

invalid_place ==
    "Invalid PLACE command. Please provide X,Y,F coordinates separated by commas."

line(word) == << <<word>> >>

RECURSIVE join(_, _)
\* sep.join(strings)
join(strings, sep) ==
    IF strings = <<>> THEN ""
    ELSE IF Len(strings) = 1 THEN strings[1]
    ELSE strings[1] \o sep \o join(Tail(strings), sep)

\* the text of a command
text_of(command) == join([i \in 1..Len(command) |-> join(command[i], ",")], " ")

\* command.startswith('PLACE'), over the first words the model offers
starts_with_place(command) ==
    /\ command /= <<>>
    /\ \E rest \in {"", "S"} : command[1][1] = "PLACE" \o rest

\* the decimal literals int() reads as n, among the fields the model offers
int_literals(n) ==
    {int_str(n)} \cup (IF n >= 0 THEN {"+" \o nat_str(n), "0" \o nat_str(n)} ELSE {})

\* the fields int() reads as an integer, with their values
IntLiterals == UNION {{<<s, n>> : s \in int_literals(n)} : n \in Coords}

\* int(field)
int_of(field) ==
    IF \E l \in IntLiterals : l[1] = field
    THEN Return((CHOOSE l \in IntLiterals : l[1] = field)[2])
    ELSE Raise("invalid literal for int() with base 10: '" \o field \o "'")

\* the PLACE handler storing each coordinate as soon as it is parsed
place_command_eager(self, command) ==
    LET parts == command
    IN IF len(parts) /= 2 THEN [self |-> self, out |-> Raise(invalid_place)]
       ELSE LET coords == parts[2]
            IN IF len(coords) /= 3 THEN [self |-> self, out |-> Raise(invalid_place)]
               ELSE LET x == int_of(coords[1])
                        y == int_of(coords[2])
                        direction == Some(coords[3])
                    IN IF x.raised THEN [self |-> self, out |-> x]
                       ELSE IF y.raised
                       THEN [self |-> [self EXCEPT !.location_x = Some(x.value)], out |-> y]
                       ELSE set_start_position(self, <<Some(x.value), Some(y.value), direction>>)

\* the try block of the PLACE handler: the new LocationManager and the
\* outcome, raised when the except clause is taken
place_command(self, command) ==
    LET parts == command
    IN IF len(parts) /= 2 THEN [self |-> self, out |-> Raise(invalid_place)]
       ELSE LET coords == parts[2]
            IN IF len(coords) /= 3 THEN [self |-> self, out |-> Raise(invalid_place)]
               ELSE LET x == int_of(coords[1])
                        y == int_of(coords[2])
                        direction == Some(coords[3])
                    IN IF x.raised THEN [self |-> self, out |-> x]
                       ELSE IF y.raised THEN [self |-> self, out |-> y]
                       ELSE set_start_position(self, <<Some(x.value), Some(y.value), direction>>)

\* str(value) of a returned bool
bool_str(b) == IF b THEN "True" ELSE "False"

NumberFields == {int_str(n) : n \in Coords}
DirectionFields == {"NORTH", "EAST", "SOUTH", "WEST", "UP"}
PlaceCommands ==
    {<< <<"PLACE">>, <<x, y, f>> >> : x \in NumberFields, y \in NumberFields, f \in DirectionFields}
OddPlaceCommands ==
    { << <<"PLACE">> >>,
      << <<"PLACE">>, <<"1", "2">> >>,
      << <<"PLACE">>, <<"1", "2", "NORTH", "3">> >>,
      << <<"PLACE">>, <<"1">>, <<"2">>, <<"NORTH">> >>,
      << <<"PLACE">>, <<"X", "2", "NORTH">> >>,
      << <<"PLACE">>, <<"1", "", "NORTH">> >>,
      << <<"PLACE">>, <<"1", "1.5", "NORTH">> >>,
      << <<"PLACE">>, <<"+1", "01", "NORTH">> >>,
      << <<"PLACE">>, <<"0", "0", "">> >>,
      << <<"PLACES">>, <<"0", "1", "EAST">> >>,
      << <<"PLACE", "1", "2", "NORTH">> >> }
\* config.simulation_area: an empty table and the largest one
ConfigAreas == {<<0, 0>>, <<MaxWidth, MaxHeight>>}
UnknownCommands ==
    { line("JUMP"), << <<"MOVE">>, <<"1">> >>, << <<"REPORT">>, <<"NOW">> >> }

MainInit ==
    /\ location_manager \in
          {LocationManager(get_simulation_area(SimulationAreaManager(a).value).value) :
              a \in ConfigAreas}
    /\ running = TRUE
    /\ aborted = FALSE
    /\ last_call = Call("none", <<>>)
    /\ returned = Return(None)
    /\ printed = <<"Toy Robot Simulation", available_commands,
                   "----------------------------------------------------------------------">>
    /\ ever_placed = FALSE
    /\ places_inside = TRUE
    /\ expected = Unplaced
    /\ streak = NoStreak

\* a manager call made by a command's branch: its result is printed; an
\* exception leaving it reaches the last except clause, which calls exit(1)
Dispatch(res, lines) ==
    /\ location_manager' = res.self
    /\ returned' = res.out
    /\ IF res.out.raised
       THEN /\ UNCHANGED running
            /\ aborted' = TRUE
            /\ printed' = <<"\nReceived unexpected error. Please see logs for more details. Exiting simulation...">>
       ELSE /\ printed' = lines \o <<res.out.value>>
            /\ UNCHANGED <<running, aborted>>

\* an empty line: continue
Empty ==
    /\ running /\ ~aborted
    /\ last_call' = Call("", <<>>)
    /\ streak' = NoStreak
    /\ printed' = <<>>
    /\ returned' = Return(None)
    /\ UNCHANGED <<location_manager, running, aborted, ever_placed, places_inside, expected>>

\* STOP
Stop ==
    /\ running /\ ~aborted
    /\ \E res \in {report_robot_location(location_manager)} :
          /\ location_manager' = res.self
          /\ returned' = res.out
          /\ IF res.out.raised
             THEN /\ running' = FALSE
                  /\ aborted' = TRUE
                  /\ printed' = <<"\nReceived unexpected error. Please see logs for more details. Exiting simulation...">>
             ELSE /\ running' = FALSE
                  /\ aborted' = FALSE
                  /\ printed' = <<"Robots final location: " \o res.out.value,
                                  "Exiting simulation...", "Simulation complete.">>
    /\ last_call' = Call("STOP", <<>>)
    /\ streak' = NoStreak
    /\ UNCHANGED <<ever_placed, places_inside, expected>>

\* PLACE ...
Place(command) ==
    /\ running /\ ~aborted
    /\ starts_with_place(command)
    /\ \E res \in {place_command(location_manager, command)} :
          /\ location_manager' = res.self
          /\ returned' = res.out
          /\ printed' = <<"Processing PLACE command...",
                          IF res.out.raised THEN res.out.value ELSE bool_str(res.out.value)>>
          /\ IF ~res.out.raised /\ res.out.value
             THEN /\ ever_placed' = TRUE
                  /\ places_inside' = (places_inside
                                       /\ contains(location_manager.simulation_area,
                                                   res.self.location_x[1], res.self.location_y[1]))
                  /\ expected' = table_place(res.self.location_x[1], res.self.location_y[1],
                                             res.self.location_facing)
             ELSE UNCHANGED <<ever_placed, places_inside, expected>>
    /\ last_call' = Call("PLACE", <<command>>)
    /\ streak' = NoStreak
    /\ UNCHANGED <<running, aborted>>

\* REPORT
Report ==
    /\ running /\ ~aborted
    /\ Dispatch(report_robot_location(location_manager), <<"Processing REPORT command...">>)
    /\ last_call' = Call("REPORT", <<>>)
    /\ streak' = StreakAfter("REPORT", report_robot_location(location_manager).out)
    /\ UNCHANGED <<ever_placed, places_inside, expected>>

\* LEFT
Left ==
    /\ running /\ ~aborted
    /\ Dispatch(turn_robot(location_manager, "LEFT"), <<"Processing LEFT command...">>)
    /\ last_call' = Call("LEFT", <<>>)
    /\ TurnHistory("LEFT")
    /\ expected' = table_rotate(expected, "LEFT")
    /\ UNCHANGED <<ever_placed, places_inside>>

\* RIGHT
Right ==
    /\ running /\ ~aborted
    /\ Dispatch(turn_robot(location_manager, "RIGHT"), <<"Processing RIGHT command...">>)
    /\ last_call' = Call("RIGHT", <<>>)
    /\ TurnHistory("RIGHT")
    /\ expected' = table_rotate(expected, "RIGHT")
    /\ UNCHANGED <<ever_placed, places_inside>>

\* MOVE
Move ==
    /\ running /\ ~aborted
    /\ Dispatch(move_robot(location_manager), <<"Processing MOVE command...">>)
    /\ last_call' = Call("MOVE", <<>>)
    /\ streak' = NoStreak
    /\ expected' = table_move(location_manager.simulation_area, expected, 1)
    /\ UNCHANGED <<ever_placed, places_inside>>

\* HELP
Help ==
    /\ running /\ ~aborted
    /\ last_call' = Call("HELP", <<>>)
    /\ streak' = NoStreak
    /\ printed' = <<available_commands>>
    /\ returned' = Return(None)
    /\ UNCHANGED <<location_manager, running, aborted, ever_placed, places_inside, expected>>

\* any other command
Unknown(command) ==
    /\ running /\ ~aborted
    /\ ~starts_with_place(command)
    /\ command \notin {<<>>, line("STOP"), line("REPORT"), line("LEFT"), line("RIGHT"),
                       line("MOVE"), line("HELP")}
    /\ last_call' = Call("UNKNOWN", <<command>>)
    /\ streak' = NoStreak
    /\ printed' = <<"Unknown command: " \o text_of(command) \o ". " \o available_commands>>
    /\ returned' = Return(None)
    /\ UNCHANGED <<location_manager, running, aborted, ever_placed, places_inside, expected>>

\* input() raises EOFError
EndOfInput ==
    /\ running /\ ~aborted
    /\ running' = FALSE
    /\ last_call' = Call("EOFError", <<>>)
    /\ streak' = NoStreak
    /\ printed' = <<"Simulation complete.">>
    /\ returned' = Return(None)
    /\ UNCHANGED <<location_manager, aborted, ever_placed, places_inside, expected>>

\* KeyboardInterrupt
Interrupt ==
    /\ running /\ ~aborted
    /\ running' = FALSE
    /\ last_call' = Call("KeyboardInterrupt", <<>>)
    /\ streak' = NoStreak
    /\ printed' = <<"\nKeyboard interrupt received. Exiting simulation...", "Simulation complete.">>
    /\ returned' = Return(None)
    /\ UNCHANGED <<location_manager, aborted, ever_placed, places_inside, expected>>

MainNext ==
    \/ Empty
    \/ Stop
    \/ \E command \in PlaceCommands \cup OddPlaceCommands : Place(command)
    \/ Report
    \/ Left
    \/ Right
    \/ Move
    \/ Help
    \/ \E command \in UnknownCommands : Unknown(command)
    \/ EndOfInput
    \/ Interrupt

MainSpec == MainInit /\ [][MainNext]_vars

-----------------------------------------------------------------------------
(* A sequence of RobotManager calls on one robot, as a test method makes it *)

place(x, y, f) == [op |-> "place_robot", arg |-> <<Some(x), Some(y), f>>]
move == [op |-> "move_robot", arg |-> None]
left == [op |-> "turn_robot", arg |-> "LEFT"]
right == [op |-> "turn_robot", arg |-> "RIGHT"]

call_robot(self, c) ==
    CASE c.op = "place_robot" -> place_robot(self, c.arg).self
      [] c.op = "move_robot" -> move_robot(self).self
      [] c.op = "turn_robot" -> turn_robot(self, c.arg).self

RECURSIVE run_robot(_, _)
run_robot(self, calls) ==
    IF calls = <<>> THEN self ELSE run_robot(call_robot(self, Head(calls)), Tail(calls))

\* the report after the calls on a fresh robot over the area of the tests
report_after(calls) ==
    report_robot_location(run_robot(LocationManager(<<5, 5>>), calls)).out.value

-----------------------------------------------------------------------------
(* Properties *)

area == location_manager.simulation_area
facing == location_manager.location_facing
\* the position of a placed robot
pos_x == location_manager.location_x[1]
pos_y == location_manager.location_y[1]
here == Placed(pos_x, pos_y, facing)

MoveCalls == {"move_robot", "location_manager.move_robot"}
\* the distance of the move call recorded in c
distance_of(c) == IF c.op = "move_robot" THEN 1 ELSE c.args[1]
\* what a move call returns when it moved, and when it did not
moved_result(c, self) ==
    IF c.op = "move_robot"
    THEN Return("Robot moved. Location: " \o int_str(self.location_x[1]) \o ", "
                \o int_str(self.location_y[1]) \o ", facing " \o self.location_facing[1])
    ELSE Return(TRUE)
rejected_result(c) ==
    IF c.op = "move_robot"
    THEN Return("Robot movement failed. Stopped moving. See logs for more details.")
    ELSE Return(FALSE)

\* C1: after any sequence of place / move / turn calls whose last place gave
\* one of the four orientations, report_robot_location returns '(x,y,F)' of
\* the state the transition table of the specification reaches; the three
\* scenarios of the tests give (0,1,NORTH), (0,0,WEST) and (3,3,NORTH).
C1_ReportFollowsTable ==
    /\ expected.kind = "unplaced" => ~is_placed(location_manager)
    /\ expected.kind = "placed" =>
          /\ is_placed(location_manager)
          /\ report_robot_location(location_manager).out = Return(table_report(expected))
          /\ last_call.op = "report_robot_location" => returned = Return(table_report(expected))
    /\ report_after(<<place(0, 0, NORTH), move>>) = "(0,1,NORTH)"
    /\ report_after(<<place(0, 0, NORTH), left>>) = "(0,0,WEST)"
    /\ report_after(<<place(1, 2, EAST), move, move, left, move>>) = "(3,3,NORTH)"

C1_Witness ==
    /\ last_call.op = "report_robot_location"
    /\ area = <<MaxWidth, MaxHeight>>
    /\ expected = Placed(0, 1, WEST)
    /\ returned = Return("(0,1,WEST)")

\* C2: a move of a placed robot whose candidate is outside the area returns
\* false, raises nothing and leaves position and orientation as they were.
C2_RejectedMoveKeepsState ==
    [][(/\ last_call'.op \in MoveCalls
        /\ is_placed(location_manager)
        /\ facing \in Canonical
        /\ LET c == table_candidate(here, distance_of(last_call'))
           IN ~contains(area, c[1], c[2]))
       => (/\ returned' = rejected_result(last_call')
           /\ location_manager' = location_manager)]_vars

C2_Witness ==
    /\ last_call = Call("location_manager.move_robot", <<MaxDistance>>)
    /\ returned = Return(FALSE)
    /\ area = <<MaxWidth, MaxHeight>>
    /\ is_placed(location_manager)
    /\ here = Placed(MaxWidth - 1, MaxHeight, EAST)

\* C3: from a position strictly inside the area, with any of the four
\* orientations, move(1) returns true and changes exactly the coordinate of
\* the orientation's axis by 1; the position is in the area before and after.
C3_InteriorMove ==
    [][(/\ last_call'.op \in MoveCalls
        /\ distance_of(last_call') = 1
        /\ is_placed(location_manager)
        /\ facing \in Canonical
        /\ 0 < pos_x /\ pos_x < area[1]
        /\ 0 < pos_y /\ pos_y < area[2])
       => (/\ is_placed(location_manager')
           /\ returned' = moved_result(last_call', location_manager')
           /\ location_manager'.location_facing = facing
           /\ location_manager'.simulation_area = area
           /\ LET x == location_manager'.location_x[1]
                  y == location_manager'.location_y[1]
              IN /\ facing = NORTH => x = pos_x /\ y = pos_y + 1
                 /\ facing = EAST => x = pos_x + 1 /\ y = pos_y
                 /\ facing = SOUTH => x = pos_x /\ y = pos_y - 1
                 /\ facing = WEST => x = pos_x - 1 /\ y = pos_y
                 /\ contains(area, pos_x, pos_y)
                 /\ contains(area, x, y))]_vars

C3_Witness ==
    /\ last_call = Call("location_manager.move_robot", <<1>>)
    /\ returned = Return(TRUE)
    /\ area = <<MaxWidth, MaxHeight>>
    /\ is_placed(location_manager)
    /\ here = Placed(1, 0, SOUTH)

\* C4 as claimed: in every placed state the position is inside the area.
C4_PlacedInsideArea ==
    is_placed(location_manager) => contains(area, pos_x, pos_y)

\* C4 as amended: in every placed state reached while every place targeted a
\* position inside the area, the position is inside the area.
C4_InsideWhilePlacesInside ==
    (is_placed(location_manager) /\ places_inside) => contains(area, pos_x, pos_y)

C4_Witness ==
    /\ last_call.op \in MoveCalls
    /\ returned = rejected_result(last_call)
    /\ places_inside
    /\ is_placed(location_manager)
    /\ here = Placed(0, area[2], NORTH)

\* C5: place with integer x, y succeeds from every state: afterwards the
\* position and the orientation are the given ones and is_placed() is true,
\* inside the area or not; PLACE 0,0,NORTH; PLACE 2,2,SOUTH reports (2,2,SOUTH).
C5_PlaceOverwrites ==
    /\ (last_call.op = "place_robot" /\ last_call.args[1] /= None) =>
          /\ location_manager.location_x = last_call.args[1][1]
          /\ location_manager.location_y = last_call.args[1][2]
          /\ location_manager.location_facing = last_call.args[1][3]
          /\ is_placed(location_manager)
          /\ returned = Return("Robot placed successfully at "
                               \o fmt_location(last_call.args[1]) \o ".")
    /\ report_after(<<place(0, 0, NORTH), place(2, 2, SOUTH)>>) = "(2,2,SOUTH)"
    /\ report_after(<<place(0, 0, NORTH), place(6, -1, SOUTH)>>) = "(6,-1,SOUTH)"

C5_Witness ==
    /\ last_call = Call("place_robot", <<(<<Some(MaxCoord), Some(-1), WEST>>)>>)
    /\ ~contains(area, pos_x, pos_y)
    /\ is_placed(location_manager)
    /\ to_string(location_manager) = "(" \o int_str(MaxCoord) \o ",-1,WEST)"

\* the cyclic order of the specification, and the place of f in it (1..4)
order == <<NORTH, EAST, SOUTH, WEST>>
place_in_order(f) == CHOOSE i \in 1..4 : order[i] = f
neighbour(f, step) == order[((place_in_order(f) - 1 + step) % 4) + 1]

\* C6: for a placed robot facing the direction at index i of NORTH, EAST,
\* SOUTH, WEST, a RIGHT turn gives index (i+1) mod 4 and a LEFT turn index
\* (i-1) mod 4, and the call reports success with the new orientation.
C6_TurnIsCyclic ==
    /\ [][(/\ last_call'.op = "turn_robot"
           /\ last_call'.args[1] \in {"LEFT", "RIGHT"}
           /\ is_placed(location_manager)
           /\ facing \in Canonical)
          => LET step == IF last_call'.args[1] = "RIGHT" THEN 1 ELSE -1
             IN /\ location_manager'.location_facing = neighbour(facing, step)
                /\ returned' = Return("Robot is now facing " \o neighbour(facing, step)[1])]_vars
    /\ [](/\ report_after(<<place(1, 1, NORTH), left>>) = "(1,1,WEST)"
          /\ report_after(<<place(1, 1, WEST), right>>) = "(1,1,NORTH)")

C6_Witness ==
    /\ last_call = Call("turn_robot", <<"RIGHT">>)
    /\ is_placed(location_manager)
    /\ facing = NORTH
    /\ returned = Return("Robot is now facing NORTH")

\* C7: in every placed state of the command loop the orientation is one of
\* NORTH, EAST, SOUTH, WEST (a PLACE with another orientation token is
\* rejected before it changes the agent).
C7_OrientationCanonical ==
    is_placed(location_manager) => facing \in Canonical

\* C8: a fresh agent is unplaced; is_placed() is true exactly when a
\* successful place occurred earlier, and once true it stays true.
C8_PlacedIffPlacedBefore ==
    /\ (/\ ~is_placed(location_manager)
        /\ location_manager.location_x = None
        /\ location_manager.location_y = None
        /\ location_manager.location_facing = None)
    /\ [](is_placed(location_manager) <=> ever_placed)
    /\ [][is_placed(location_manager) => is_placed(location_manager')]_vars

C8_Witness ==
    /\ ever_placed
    /\ is_placed(location_manager)
    /\ last_call.op = "location_manager.move_robot"
    /\ returned = Return(FALSE)
    /\ here = Placed(0, 0, SOUTH)

\* C9: on an unplaced agent move_robot and turn_robot(LEFT|RIGHT) change
\* nothing, raise nothing and return a failure message.
C9_UnplacedCallsAreNoOps ==
    [][(/\ ~is_placed(location_manager)
        /\ \/ last_call'.op = "move_robot"
           \/ last_call'.op = "turn_robot" /\ last_call'.args[1] \in {"LEFT", "RIGHT"})
       => (/\ location_manager' = location_manager
           /\ ~is_placed(location_manager')
           /\ returned' = IF last_call'.op = "move_robot"
                          THEN Return("Robot not placed. Please place robot before moving.")
                          ELSE Return("Failed to rotate to " \o last_call'.args[1]
                                      \o ". Robot is still facing None."))]_vars

C9_Witness ==
    /\ ~is_placed(location_manager)
    /\ location_manager.location_facing = None
    /\ last_call = Call("turn_robot", <<"LEFT">>)
    /\ returned = Return("Failed to rotate to LEFT. Robot is still facing None.")

\* the lines a REPORT or a STOP prints that render the position
rendered_lines ==
    {l \in {printed[i] : i \in 1..Len(printed)} :
        l \in {to_string(location_manager),
               "Robots final location: " \o to_string(location_manager)}}

\* C10: a REPORT or the final report of STOP renders '(x,y,ORIENTATION)'
\* only for a placed agent; for an unplaced one is_placed() is checked first
\* and no position is rendered.
C10_ReportOnlyWhenPlaced ==
    (last_call.op \in {"REPORT", "STOP"} /\ rendered_lines /= {})
        => is_placed(location_manager)

\* C11: a rotate with a direction other than LEFT or RIGHT fails in every
\* state: handle_rotation raises, update_rotation returns False, turn_robot
\* returns its failure message, and position and orientation are unchanged.
C11_InvalidRotationFails ==
    [][(last_call'.op = "turn_robot" /\ last_call'.args[1] \notin {"LEFT", "RIGHT"})
       => (/\ handle_rotation(available_directions, last_call'.args[1], facing).raised
           /\ update_rotation(location_manager, last_call'.args[1]).out = Return(FALSE)
           /\ returned' = Return("Failed to rotate to " \o last_call'.args[1]
                                 \o ". Robot is still facing " \o fmt_str(facing) \o ".")
           /\ location_manager' = location_manager)]_vars

C11_Witness ==
    /\ last_call = Call("turn_robot", <<"BACK">>)
    /\ is_placed(location_manager)
    /\ facing = EAST
    /\ returned = Return("Failed to rotate to BACK. Robot is still facing EAST.")

\* C12: for a placed agent facing o, LEFT then RIGHT returns the orientation
\* to o, and so does RIGHT then LEFT.
C12_OppositeTurnsCancel ==
    (streak.calls \in {<<"LEFT", "RIGHT">>, <<"RIGHT", "LEFT">>})
        => (/\ is_placed(streak.from)
            /\ streak.from.location_facing \in Canonical
            /\ location_manager = streak.from)

C12_Witness ==
    /\ streak.calls = <<"LEFT", "RIGHT">>
    /\ last_call = Call("turn_robot", <<"RIGHT">>)
    /\ streak.first = Return("Robot is now facing WEST")
    /\ facing = NORTH
    /\ streak.from.location_facing = NORTH

\* the number of RIGHT turns of the current run, 0 when it is no run of RIGHT turns
right_turns ==
    IF streak.calls /= <<>> /\ \A i \in 1..Len(streak.calls) : streak.calls[i] = "RIGHT"
    THEN Len(streak.calls)
    ELSE 0

\* C13: for a placed agent facing o, four consecutive RIGHT turns return the
\* orientation to o, and one, two or three do not.
C13_RightTurnsPeriodFour ==
    /\ right_turns = 4 => location_manager = streak.from
    /\ right_turns \in 1..3 =>
          /\ facing /= streak.from.location_facing
          /\ location_manager = [streak.from EXCEPT !.location_facing = facing]
    /\ right_turns > 0 => streak.from.location_facing \in Canonical

C13_Witness ==
    /\ right_turns = 4
    /\ last_call = Call("turn_robot", <<"RIGHT">>)
    /\ facing = SOUTH
    /\ streak.from.location_facing = SOUTH
    /\ returned = Return("Robot is now facing SOUTH")

-----------------------------------------------------------------------------
(* C14: in the command loop a MOVE rejected for leaving the area never ends *)
(* the session: the loop is still running, the exit(1) path has not been    *)
(* taken and the next commands are still accepted; the loop has stopped     *)
(* only after STOP, end of input or an interrupt, never after PLACE, MOVE,  *)
(* LEFT, RIGHT, REPORT or HELP.                                             *)
LoopCommands == {"PLACE", "MOVE", "LEFT", "RIGHT", "REPORT", "HELP"}
LoopEnds == {"STOP", "EOFError", "KeyboardInterrupt"}
move_rejected ==
    /\ last_call.op = "MOVE"
    /\ returned = Return("Robot movement failed. Stopped moving. See logs for more details.")

C14_RejectedMoveKeepsSession ==
    /\ ~aborted
    /\ last_call.op \in LoopCommands => running
    /\ ~running => last_call.op \in LoopEnds
    /\ move_rejected =>
          /\ running
          /\ printed = <<"Processing MOVE command...", returned.value>>
          /\ ENABLED Move /\ ENABLED Report /\ ENABLED Left /\ ENABLED Right /\ ENABLED Help

C14_Witness ==
    /\ move_rejected
    /\ is_placed(location_manager)
    /\ ~contains(area, table_candidate(expected, 1)[1], table_candidate(expected, 1)[2])
    /\ running /\ ~aborted

-----------------------------------------------------------------------------
(* C15: report_robot_location is read-only: the call leaves position,      *)
(* orientation and the placed flag as they were, and a second call with no *)
(* place, move or turn in between returns what the first returned.         *)
reports == IF streak.calls /= <<>> /\ streak.calls[1] = "REPORT" THEN Len(streak.calls) ELSE 0

C15_ReportReadOnly ==
    /\ last_call.op = "report_robot_location" => reports \in 1..2
    /\ reports > 0 =>
          /\ location_manager = streak.from
          /\ is_placed(location_manager) = is_placed(streak.from)
          /\ returned = Return(to_string(streak.from))
    /\ reports = 2 => returned = streak.first

C15_Witness ==
    /\ reports = 2
    /\ last_call = Call("report_robot_location", <<>>)
    /\ streak.first = Return("(2,0,WEST)")
    /\ returned = Return("(2,0,WEST)")
    /\ here = Placed(2, 0, WEST)

-----------------------------------------------------------------------------
(* C16: set_start_position with no location, and so place_robot(None),     *)
(* places the robot at the default (0, 0, NORTH): afterwards the agent is  *)
(* placed at x = 0, y = 0 facing NORTH.                                    *)
C16_PlaceNoneDefaults ==
    last_call = Call("place_robot", <<None>>)
        => /\ is_placed(location_manager)
           /\ location_manager.location_x = Some(0)
           /\ location_manager.location_y = Some(0)
           /\ location_manager.location_facing = NORTH

-----------------------------------------------------------------------------
(* C17: the area the agent validates moves against is fixed at             *)
(* construction: no command of the loop changes                            *)
(* LocationManager.simulation_area, it stays the configured pair, and an   *)
(* accepted MOVE ends inside that same rectangle.                          *)
C17_AreaNeverChanges ==
    [][/\ location_manager'.simulation_area = location_manager.simulation_area
       /\ location_manager'.simulation_area \in ConfigAreas
       /\ (last_call'.op = "MOVE" /\ location_manager' /= location_manager)
             => check_location(area, <<location_manager'.location_x[1],
                                       location_manager'.location_y[1]>>)]_vars

C17_Witness ==
    /\ last_call.op = "MOVE"
    /\ returned = Return("Robot moved. Location: 1, 2, facing EAST")
    /\ area = <<MaxWidth, MaxHeight>>
    /\ ever_placed

-----------------------------------------------------------------------------
(* C18: a turn changes at most the orientation: for a placed agent, after  *)
(* turn_robot(LEFT) or turn_robot(RIGHT), successful or failed, x, y and   *)
(* the placed flag are what they were before the call (a failed turn       *)
(* changes nothing at all).                                                *)
turn_failed(rotation, self) ==
    Return("Failed to rotate to " \o rotation \o ". Robot is still facing "
           \o fmt_str(self.location_facing) \o ".")

C18_TurnKeepsPosition ==
    [][(/\ last_call'.op = "turn_robot"
        /\ last_call'.args[1] \in {"LEFT", "RIGHT"}
        /\ is_placed(location_manager))
       => (/\ location_manager'.location_x = location_manager.location_x
           /\ location_manager'.location_y = location_manager.location_y
           /\ is_placed(location_manager')
           /\ location_manager' = [location_manager EXCEPT !.location_facing = facing']
           /\ returned' = turn_failed(last_call'.args[1], location_manager)
                 => location_manager' = location_manager
           /\ returned' /= turn_failed(last_call'.args[1], location_manager)
                 => facing' \in Canonical \ {facing})]_vars

C18_Witness ==
    /\ last_call = Call("turn_robot", <<"LEFT">>)
    /\ returned = Return("Failed to rotate to LEFT. Robot is still facing UP.")
    /\ is_placed(location_manager)
    /\ here = Placed(1, 2, Some("UP"))

C18_TurnedWitness ==
    /\ last_call = Call("turn_robot", <<"LEFT">>)
    /\ returned = Return("Robot is now facing WEST")
    /\ here = Placed(1, 2, WEST)

-----------------------------------------------------------------------------
(* C19: a move never changes the orientation: for a placed agent, after    *)
(* move_robot() or location_manager.move_robot(facing, distance), accepted *)
(* or rejected, the orientation is what it was before the call; an         *)
(* accepted move changes only the coordinate on the orientation's axis and *)
(* a rejected one changes nothing.                                         *)
C19_MoveKeepsOrientation ==
    [][(last_call'.op \in MoveCalls /\ is_placed(location_manager))
       => (/\ facing' = facing
           /\ is_placed(location_manager')
           /\ location_manager'.simulation_area = area
           /\ returned' \in {moved_result(last_call', location_manager'),
                             rejected_result(last_call')}
           /\ returned' = rejected_result(last_call') => location_manager' = location_manager
           /\ returned' = moved_result(last_call', location_manager') =>
                 /\ facing \in {NORTH, SOUTH} =>
                       /\ location_manager'.location_x = location_manager.location_x
                       /\ location_manager'.location_y /= location_manager.location_y
                 /\ facing \in {EAST, WEST} =>
                       /\ location_manager'.location_y = location_manager.location_y
                       /\ location_manager'.location_x /= location_manager.location_x
                 /\ facing \in Canonical)]_vars

C19_Witness ==
    /\ last_call = Call("location_manager.move_robot", <<2>>)
    /\ returned = Return(TRUE)
    /\ here = Placed(0, 2, WEST)
    /\ expected = Placed(0, 2, WEST)

C19_RejectedWitness ==
    /\ last_call = Call("move_robot", <<>>)
    /\ returned = rejected_result(last_call)
    /\ here = Placed(2, 2, EAST)
    /\ area = <<2, 2>>

-----------------------------------------------------------------------------
(* C20: conditional boundary invariant: in a run in which every place      *)
(* targeted a position inside the area, every placed state has its         *)
(* position inside the area; and no move (of any distance) and no turn     *)
(* takes an agent from a position inside the area to one outside it.       *)
inside(self) ==
    /\ is_placed(self)
    /\ contains(self.simulation_area, self.location_x[1], self.location_y[1])

C20_MovesAndTurnsStayInside ==
    /\ [](places_inside => (is_placed(location_manager) => inside(location_manager)))
    /\ [][(/\ last_call'.op \in MoveCalls \cup {"turn_robot"}
            /\ inside(location_manager))
           => inside(location_manager')]_vars

C20_Witness ==
    /\ last_call = Call("location_manager.move_robot", <<2>>)
    /\ returned = Return(TRUE)
    /\ places_inside
    /\ area = <<MaxWidth, MaxHeight>>
    /\ here = Placed(2, 0, EAST)
    /\ inside(location_manager)

-----------------------------------------------------------------------------
(* C21: for an agent placed outside the area a move validates only the     *)
(* candidate: it returns true and stores the candidate exactly when the    *)
(* candidate is inside the area, and returns false leaving the position    *)
(* unchanged when the candidate is still outside; on the (5,5) area        *)
(* (6,3,WEST) moves to (5,3) and (7,3,WEST) stays.                         *)
\* the candidate of a move: the step of the table for a canonical
\* orientation, the current position for any other
candidate_of(c) ==
    IF facing \in Canonical THEN table_candidate(here, distance_of(c)) ELSE <<pos_x, pos_y>>

C21_OutsideMoveChecksCandidate ==
    /\ [](/\ report_after(<<place(6, 3, WEST), move>>) = "(5,3,WEST)"
          /\ report_after(<<place(7, 3, WEST), move>>) = "(7,3,WEST)"
          /\ report_after(<<place(7, 3, WEST), move, move>>) = "(7,3,WEST)")
    /\ [][(/\ last_call'.op \in MoveCalls
            /\ is_placed(location_manager)
            /\ ~contains(area, pos_x, pos_y))
           => LET c == candidate_of(last_call')
              IN IF contains(area, c[1], c[2])
                 THEN /\ returned' = moved_result(last_call', location_manager')
                      /\ location_manager' = [location_manager EXCEPT !.location_x = Some(c[1]),
                                                                        !.location_y = Some(c[2])]
                 ELSE /\ returned' = rejected_result(last_call')
                      /\ location_manager' = location_manager]_vars

\* on the one-point area an accepted move can only have started outside
C21_Witness ==
    /\ area = <<0, 0>>
    /\ last_call = Call("move_robot", <<>>)
    /\ returned = Return("Robot moved. Location: 0, 0, facing WEST")
    /\ here = Placed(0, 0, WEST)

C21_StillOutsideWitness ==
    /\ area = <<0, 0>>
    /\ last_call = Call("location_manager.move_robot", <<1>>)
    /\ is_placed(location_manager)
    /\ here = Placed(2, 0, WEST)
    /\ returned = Return(FALSE)

-----------------------------------------------------------------------------
(* C22: an agent whose stored orientation is not one of the four canonical *)
(* values is frozen: every move and every turn returns failure, raises     *)
(* nothing and leaves position and orientation unchanged; only a place     *)
(* enters that state, and a place with a canonical orientation leaves it.  *)
frozen(self) == is_placed(self) /\ self.location_facing \notin Canonical

\* a robot of the tests placed at (1, 2) with the orientation f
placed_facing(f) == place_robot(LocationManager(<<5, 5>>), <<Some(1), Some(2), f>>).self

frozen_calls(self) ==
    /\ move_robot(self) = [self |-> self, out |-> rejected_result(Call("move_robot", <<>>))]
    /\ \A rotation \in {"LEFT", "RIGHT"} :
          turn_robot(self, rotation) = [self |-> self, out |-> turn_failed(rotation, self)]

C22_NonCanonicalIsFrozen ==
    /\ [](/\ frozen(placed_facing(None)) /\ frozen_calls(placed_facing(None))
          /\ frozen(placed_facing(Some(""))) /\ frozen_calls(placed_facing(Some(""))))
    /\ [][/\ (frozen(location_manager) /\ last_call'.op \in MoveCalls)
             => (/\ returned' = rejected_result(last_call')
                 /\ location_manager' = location_manager)
          /\ (frozen(location_manager) /\ last_call'.op = "turn_robot")
             => (/\ returned' = turn_failed(last_call'.args[1], location_manager)
                 /\ location_manager' = location_manager)
          /\ (frozen(location_manager) /\ last_call'.op = "report_robot_location")
             => location_manager' = location_manager
          /\ (frozen(location_manager) /\ ~frozen(location_manager'))
             => (/\ last_call'.op = "place_robot"
                 /\ last_call'.args[1] /= None
                 /\ last_call'.args[1][3] \in Canonical)
          /\ (~frozen(location_manager) /\ frozen(location_manager'))
             => last_call'.op = "place_robot"]_vars

C22_Witness ==
    /\ last_call = Call("move_robot", <<>>)
    /\ frozen(location_manager)
    /\ here = Placed(1, 1, Some("UP"))
    /\ area = <<MaxWidth, MaxHeight>>
    /\ returned = Return("Robot movement failed. Stopped moving. See logs for more details.")

-----------------------------------------------------------------------------
(* C23: position and orientation are present or absent together: in every  *)
(* state reached by place (integer coordinates and an orientation value),  *)
(* move, turn and report, location_x, location_y and location_facing are   *)
(* all None or all present, so is_placed() implies a stored orientation.   *)
absent(self) ==
    self.location_x = None /\ self.location_y = None /\ self.location_facing = None
present(self) ==
    self.location_x /= None /\ self.location_y /= None /\ self.location_facing /= None

C23_PresentTogether ==
    /\ absent(location_manager) \/ present(location_manager)
    /\ is_placed(location_manager) <=> present(location_manager)
    /\ ever_placed <=> present(location_manager)

C23_Witness ==
    /\ last_call = Call("turn_robot", <<"RIGHT">>)
    /\ present(location_manager)
    /\ here = Placed(-1, 3, SOUTH)
    /\ returned = Return("Robot is now facing SOUTH")

C23_AbsentWitness ==
    /\ last_call = Call("location_manager.move_robot", <<1>>)
    /\ absent(location_manager)

-----------------------------------------------------------------------------
(* C24: in the command loop a malformed PLACE (not exactly one argument    *)
(* group, not exactly three comma-separated fields, or an x or y that is   *)
(* no integer) is rejected with the state unchanged: position, orientation *)
(* and the placed flag are as before, the message is printed and the loop  *)
(* goes on; a PLACE stores all three of its arguments or none.             *)
is_integer(field) == \E l \in IntLiterals : l[1] = field

malformed(command) ==
    \/ Len(command) /= 2
    \/ Len(command[2]) /= 3
    \/ ~is_integer(command[2][1])
    \/ ~is_integer(command[2][2])

C24_MalformedPlaceRejected ==
    [][(last_call'.op = "PLACE")
       => IF malformed(last_call'.args[1])
          THEN /\ location_manager' = location_manager
               /\ is_placed(location_manager') = is_placed(location_manager)
               /\ ever_placed' = ever_placed
               /\ returned'.raised
               /\ printed' = <<"Processing PLACE command...", returned'.value>>
               /\ running' /\ ~aborted'
          ELSE /\ location_manager'.location_x = Some(int_of(last_call'.args[1][2][1]).value)
               /\ location_manager'.location_y = Some(int_of(last_call'.args[1][2][2]).value)
               /\ location_manager'.location_facing = Some(last_call'.args[1][2][3])
               /\ returned' = Return(TRUE)
               /\ running' /\ ~aborted']_vars

C24_Witness ==
    /\ last_call = Call("PLACE", << << <<"PLACE">>, <<"1", "1.5", "NORTH">> >> >>)
    /\ returned = Raise("invalid literal for int() with base 10: '1.5'")
    /\ printed = <<"Processing PLACE command...", "invalid literal for int() with base 10: '1.5'">>
    /\ is_placed(location_manager)
    /\ here = Placed(2, 2, SOUTH)
    /\ running /\ ~aborted

C24_UnplacedWitness ==
    /\ last_call = Call("PLACE", << << <<"PLACE">>, <<"1", "2">> >> >>)
    /\ returned = Raise(invalid_place)
    /\ ~is_placed(location_manager)
    /\ running /\ ~aborted

=============================================================================
